---- MODULE Spec2Model ----
(***************************************************************************)
(* Selection-and-tree engine of the repository context packager:           *)
(* FileContext (src/src/files.rs) and TreeContext (src/src/tree.rs) run    *)
(* over a bounded directory tree with a bounded filter configuration.      *)
(*                                                                         *)
(* A name is a sequence of one-character strings, a path is a sequence of  *)
(* names counted from the filesystem top, and a path string is the names   *)
(* joined with "/" (what to_string_lossy gives the glob matcher).          *)
(***************************************************************************)
EXTENDS Naturals, Sequences, FiniteSets, TLC

VARIABLES fs, config, file_entries, file_op, tree_str, tree_op, document,
          repo, context, build_results, output

vars == <<fs, config, file_entries, file_op, tree_str, tree_op, document,
          repo, context, build_results, output>>

(* ------------------------------ bounds --------------------------------- *)

\* Directory nesting below the repository root.
MaxDepth == 3

\* Entries (files and directories) below the repository root.
MaxEntries == 3

(* ------------------------------ names ---------------------------------- *)

NA == <<"a">>
NB == <<"b">>
NHid == <<".", "a">>
NRoot == <<"r">>
NOut == <<"o">>
Dot == <<".">>
DotDot == <<".", ".">>

\* Entry names that may occur below the repository root.
Names == {NA, NB, NHid}

\* The repository root, config.root_path, as an absolute path.
RootPath == <<NRoot>>

\* A file outside the repository root, next to it.
OutPath == <<NOut>>

\* Byte order of the characters ('.' 0x2E, '/' 0x2F, letters above).
CharRank(c) ==
    CASE c = "." -> 1
      [] c = "/" -> 2
      [] c = "a" -> 3
      [] c = "b" -> 4
      [] c = "o" -> 5
      [] c = "r" -> 6
      [] OTHER -> 7

Min(x, y) == IF x <= y THEN x ELSE y

\* OsString ordering used by sort_by_key(|a| a.file_name()): lexicographic by byte.
NameLess(m, n) ==
    \/ \E k \in 1..Min(Len(m), Len(n)) :
          /\ \A j \in 1..(k - 1) : m[j] = n[j]
          /\ CharRank(m[k]) < CharRank(n[k])
    \/ /\ Len(m) < Len(n)
       /\ \A j \in 1..Len(m) : m[j] = n[j]

\* IsHidden without the check: no name counts as hidden.
IsHidden_Never(name) == FALSE

\* name.to_string_lossy().starts_with('.')
IsHidden(name) == Len(name) > 0 /\ name[1] = "."

RECURSIVE JoinPath(_)
\* Path::to_string_lossy of a relative path: the names joined with '/'.
JoinPath(p) ==
    IF p = <<>> THEN <<>>
    ELSE IF Len(p) = 1 THEN p[1]
    ELSE p[1] \o <<"/">> \o JoinPath(Tail(p))

Drop(s, k) == SubSeq(s, k + 1, Len(s))

IsPrefix(p, q) == Len(p) <= Len(q) /\ SubSeq(q, 1, Len(p)) = p

Parent(p) == SubSeq(p, 1, Len(p) - 1)

Last(p) == p[Len(p)]

(* ------------------------------ globs ---------------------------------- *)

RECURSIVE GlobMatch(_, _)
\* globset::Glob with the default options (literal_separator off), on a token
\* sequence: "*" any run of characters ('/' included), "?" any one character,
\* "**/" a recursive prefix (empty, or anything ending in '/'), "/**" a
\* recursive suffix ('/' and anything after), any other token a literal.
GlobMatch(pat, s) ==
    IF pat = <<>> THEN s = <<>>
    ELSE LET t == Head(pat)
             rest == Tail(pat)
         IN CASE t = "*" ->
                   \E k \in 0..Len(s) : GlobMatch(rest, Drop(s, k))
              [] t = "?" ->
                   s # <<>> /\ GlobMatch(rest, Tail(s))
              [] t = "**/" ->
                   \E k \in 0..Len(s) :
                       /\ (k = 0 \/ s[k] = "/")
                       /\ GlobMatch(rest, Drop(s, k))
              [] t = "/**" ->
                   /\ s # <<>>
                   /\ s[1] = "/"
                   /\ \E k \in 1..Len(s) : GlobMatch(rest, Drop(s, k))
              [] OTHER ->
                   s # <<>> /\ s[1] = t /\ GlobMatch(rest, Tail(s))

\* GlobSet::is_match: some pattern of the set matches.
SetMatch(patterns, s) ==
    \E i \in 1..Len(patterns) : GlobMatch(patterns[i], s)

\* Glob::new: a pattern with an unclosed character class ('[' without ']')
\* does not compile.
GlobValid(pat) == \A i \in 1..Len(pat) : pat[i] # "["

\* build_globset: Err at the first pattern that does not compile.
BuildGlobset(patterns) == \A i \in 1..Len(patterns) : GlobValid(patterns[i])

\* The globsets both builders make first: exclude, then include, each only
\* for a non-empty list; FALSE when one of them fails.
GlobsetsBuilt(cfg) ==
    /\ (Len(cfg.exclude_patterns) > 0 => BuildGlobset(cfg.exclude_patterns))
    /\ (Len(cfg.include_patterns) > 0 => BuildGlobset(cfg.include_patterns))

\* ExcludeHit matching the entry's name instead of its relative path.
ExcludeHit_NameOnly(cfg, rel) ==
    Len(cfg.exclude_patterns) > 0 /\ SetMatch(cfg.exclude_patterns, Last(rel))

\* exclude_set / include_set: None when the pattern list is empty.
ExcludeHit(cfg, rel) ==
    Len(cfg.exclude_patterns) > 0 /\ SetMatch(cfg.exclude_patterns, JoinPath(rel))

IncludeMiss(cfg, rel) ==
    Len(cfg.include_patterns) > 0 /\ ~SetMatch(cfg.include_patterns, JoinPath(rel))

(* --------------------------- the filesystem ---------------------------- *)

\* fs.dirs and fs.files are the existing directories and regular files (absolute
\* paths); fs.mtime the modification time of each file and fs.now the time of
\* the system clock, in seconds; fs.nomtime the
\* files whose modification time cannot be read; fs.unreadable the files whose
\* first bytes cannot be read after a successful stat; fs.unstatable the files
\* whose metadata cannot be read at all; fs.unopenable the files that cannot be
\* opened; fs.data the bytes of each file; fs.unlistable the directories whose
\* listing fails; fs.order the order in which read_dir returns names.  The filesystem
\* top <<>> is a directory that is never listed.

IsDir(f, p) == p = <<>> \/ p \in f.dirs

\* Path::is_file: false also when the metadata of the path cannot be read.
IsFile(f, p) == p \in f.files /\ p \notin f.unstatable

\* The path names an entry of its directory.
Exists(f, p) == IsDir(f, p) \/ p \in f.files

RECURSIVE Canonicalize(_, _, _)
\* Path::canonicalize, and the resolution the OS does for is_file / is_dir:
\* walks the segments from `cur`, "." stays, ".." goes up, a name must exist;
\* a segment after a non-directory fails.  The result is <<TRUE, path>> or
\* <<FALSE, <<>>>>.
Canonicalize(f, cur, segs) ==
    IF segs = <<>> THEN <<TRUE, cur>>
    ELSE IF ~IsDir(f, cur) THEN <<FALSE, <<>>>>
    ELSE LET s == Head(segs)
         IN IF s = Dot THEN Canonicalize(f, cur, Tail(segs))
            ELSE IF s = DotDot
                 THEN Canonicalize(f, IF cur = <<>> THEN cur ELSE Parent(cur), Tail(segs))
            ELSE IF Exists(f, Append(cur, s)) /\ Append(cur, s) \notin f.unstatable
                 THEN Canonicalize(f, Append(cur, s), Tail(segs))
            ELSE <<FALSE, <<>>>>

\* Path::components drops the "." segments of an absolute path and keeps "..".
Components(p) == SelectSeq(p, LAMBDA s : s # Dot)

\* Path::strip_prefix compares component by component: <<TRUE, rest>> or <<FALSE, <<>>>>.
StripPrefix(p, base) ==
    LET cp == Components(p)
        cb == Components(base)
    IN IF IsPrefix(cb, cp) THEN <<TRUE, Drop(cp, Len(cb))>> ELSE <<FALSE, <<>>>>

\* A target is [absolute, segs]: Path::new(target).is_absolute() and its segments.
\* The joined path: the target itself if absolute, else root_path.join(target).
AbsTargetPath(cfg, target) ==
    IF target.absolute THEN target.segs ELSE cfg.root_path \o target.segs

\* fs::read_dir: the names of the entries of dir, in the listing order.
ReadDir(f, dir) ==
    SelectSeq(f.order, LAMBDA n : Exists(f, Append(dir, n)))

RECURSIVE SortNames(_)
\* entries.sort_by_key(|a| a.file_name()) on a set of names.
SortNames(S) ==
    IF S = {} THEN <<>>
    ELSE LET m == CHOOSE x \in S : \A y \in S \ {x} : NameLess(x, y)
         IN <<m>> \o SortNames(S \ {m})

\* The recency window in seconds: Duration::from_secs(7 * 24 * 60 * 60).
SevenDays == 604800

\* is_recently_modified with a window one second too wide.
IsRecentlyModified_OffByOne(f, p) ==
    IF p \in f.nomtime THEN "err"
    ELSE IF f.mtime[p] >= f.now - SevenDays - 1 THEN "recent"
    ELSE "old"

\* is_recently_modified: "err" when the timestamp cannot be read, else
\* "recent" when modified_time >= now - seven days, else "old".
IsRecentlyModified(f, p) ==
    IF p \in f.nomtime THEN "err"
    ELSE IF f.mtime[p] >= f.now - SevenDays THEN "recent"
    ELSE "old"

(* ---------------------------- file contents ---------------------------- *)

\* The size of the buffer is_binary_file reads into.
SniffLen == 512

\* create_file_entry reads the content of files smaller than this many bytes.
ContentLimit == 1000000

\* The bytes of a file, as far as the program tells them apart: its length and
\* the offsets of its zero bytes, of its newline bytes and of the bytes that
\* are not valid UTF-8.
FileData(size, zero, nl, bad) ==
    [size |-> size, zero |-> zero, nl |-> nl, bad |-> bad]

NoData == FileData(0, {}, {}, {})

\* Option<String>: None, or Some of the text read.
None == [some |-> FALSE, text |-> NoData]

Some(d) == [some |-> TRUE, text |-> d]

\* is_binary_file scanning the whole file instead of the first read.
IsBinaryFile_WholeFile(f, path) ==
    IF path \in f.unopenable THEN TRUE
    ELSE f.data[path].zero # {}

\* is_binary_file: a file that cannot be opened counts as binary; otherwise one
\* read of at most SniffLen bytes is searched for a zero byte.
IsBinaryFile(f, path) ==
    IF path \in f.unopenable THEN TRUE
    ELSE LET bytes_read == IF f.data[path].size < SniffLen
                           THEN f.data[path].size ELSE SniffLen
         IN \E z \in f.data[path].zero : z < bytes_read

\* The least offset of a non-empty set of offsets.
MinOf(S) == CHOOSE n \in S : \A m \in S : n <= m

RECURSIVE LinesFrom_CountingTail(_, _)
\* lines().count() of a reader that also yields the empty segment after a
\* final newline.
LinesFrom_CountingTail(d, pos) ==
    LET ahead == { n \in d.nl : n >= pos }
    IN IF ahead = {} THEN 1
       ELSE 1 + LinesFrom_CountingTail(d, MinOf(ahead) + 1)

RECURSIVE LinesFrom(_, _)
\* BufRead::lines().count() from offset pos: at end of input there is no
\* further line; otherwise one line runs up to and including the next newline,
\* or to the end of input when there is none.
LinesFrom(d, pos) ==
    IF pos >= d.size THEN 0
    ELSE LET ahead == { n \in d.nl : n >= pos }
         IN IF ahead = {} THEN 1
            ELSE 1 + LinesFrom(d, MinOf(ahead) + 1)

\* get_file_lines
GetFileLines(f, path) == LinesFrom(f.data[path], 0)

\* fs::read_to_string(path).ok()
ReadToString(f, path) ==
    IF f.data[path].bad = {} THEN Some(f.data[path]) ELSE None

\* create_file_entry with the size test `size <= 1_000_000`.
CreateFileEntry_LimitInclusive(f, path) ==
    IF path \in f.unreadable THEN [ok |-> FALSE]
    ELSE LET size == f.data[path].size
             is_binary == IsBinaryFile(f, path)
         IN [ok |-> TRUE,
             entry |-> [path |-> [absolute |-> TRUE, segs |-> path],
                        file |-> path,
                        size |-> size,
                        is_binary |-> is_binary,
                        content |-> IF ~is_binary /\ size <= ContentLimit
                                    THEN ReadToString(f, path) ELSE None,
                        lines |-> IF ~is_binary THEN GetFileLines(f, path) ELSE 0]]

\* create_file_entry(path): fails when the metadata cannot be read; `file` is
\* the canonical location of the file the record was made from.
CreateFileEntry(f, path) ==
    IF path \in f.unreadable THEN [ok |-> FALSE]
    ELSE LET size == f.data[path].size
             is_binary == IsBinaryFile(f, path)
         IN [ok |-> TRUE,
             entry |-> [path |-> [absolute |-> TRUE, segs |-> path],
                        file |-> path,
                        size |-> size,
                        is_binary |-> is_binary,
                        content |-> IF ~is_binary /\ size < ContentLimit
                                    THEN ReadToString(f, path) ELSE None,
                        lines |-> IF ~is_binary THEN GetFileLines(f, path) ELSE 0]]

(* --------------------------- file selection ---------------------------- *)

\* Ok(files) of a selection step, with the warnings it wrote to stderr.
OkFiles(files) == [ok |-> TRUE, files |-> files, warnings |-> <<>>]

ErrFiles == [ok |-> FALSE, files |-> <<>>, warnings |-> <<>>]

\* An item skipped with a warning: eprintln!("Warning: ...") and nothing pushed.
Warned(kind, path) ==
    [ok |-> TRUE, files |-> <<>>, warnings |-> <<[kind |-> kind, path |-> path]>>]

\* Two consecutive steps: the first error ends the run; the warnings written
\* up to that point stay written.
Then(here, rest) ==
    IF ~here.ok THEN here
    ELSE [ok |-> rest.ok,
          files |-> IF rest.ok THEN here.files \o rest.files ELSE <<>>,
          warnings |-> here.warnings \o rest.warnings]

\* create_file_entry followed by the caller's rewrite of file_entry.path.
\* `path` is [absolute, segs]; `file` is the canonical location of the file.
FileEntry(f, absolute, segs, file) ==
    [CreateFileEntry(f, file).entry EXCEPT
        !.path = [absolute |-> absolute, segs |-> segs]]

RECURSIVE TraverseDirectory(_, _, _, _)
RECURSIVE TraverseEntries(_, _, _, _, _, _)

\* What the loop body does with a file that passed the pattern tests: the
\* recency filter, then create_file_entry and the path rewrite; a failure of
\* either is a warning and the file is skipped.
SelectFile(f, cfg, absolute, segs, file, shown) ==
    LET recent == IsRecentlyModified(f, file)
    IN IF cfg.recent_only /\ recent = "err" THEN Warned("mtime", shown)
       ELSE IF cfg.recent_only /\ recent = "old" THEN OkFiles(<<>>)
       ELSE IF ~CreateFileEntry(f, file).ok THEN Warned("process", shown)
       ELSE OkFiles(<<FileEntry(f, absolute, segs, file)>>)

\* TraverseEntry with the include test placed before the file/directory
\* distinction, so that directories have to match an include pattern too.
TraverseEntry_IncludeOnDirs(f, cfg, base, rel, name) ==
    LET rel_path == Append(rel, name)
        entry_path == base \o rel_path
    IN IF IsHidden(name) THEN OkFiles(<<>>)
       ELSE IF ExcludeHit(cfg, rel_path) THEN OkFiles(<<>>)
       ELSE IF IncludeMiss(cfg, rel_path) THEN OkFiles(<<>>)
       ELSE IF IsFile(f, entry_path)
            THEN SelectFile(f, cfg, FALSE, rel_path, entry_path, entry_path)
       ELSE IF IsDir(f, entry_path) /\ cfg.is_recursive
            THEN TraverseDirectory(f, cfg, base, rel_path)
       ELSE OkFiles(<<>>)

\* TraverseEntry descending into every directory, whatever is_recursive says.
TraverseEntry_AlwaysRecurse(f, cfg, base, rel, name) ==
    LET rel_path == Append(rel, name)
        entry_path == base \o rel_path
    IN IF IsHidden(name) THEN OkFiles(<<>>)
       ELSE IF ExcludeHit(cfg, rel_path) THEN OkFiles(<<>>)
       ELSE IF IsFile(f, entry_path)
            THEN IF IncludeMiss(cfg, rel_path) THEN OkFiles(<<>>)
                 ELSE SelectFile(f, cfg, FALSE, rel_path, entry_path, entry_path)
       ELSE IF IsDir(f, entry_path)
            THEN TraverseDirectory(f, cfg, base, rel_path)
       ELSE OkFiles(<<>>)

\* One iteration of the loop of traverse_directory, for the entry `name` of the
\* directory base \o rel: what it appends to `files`, or the propagated error.
TraverseEntry(f, cfg, base, rel, name) ==
    LET rel_path == Append(rel, name)
        entry_path == base \o rel_path
    IN IF IsHidden(name) THEN OkFiles(<<>>)
       ELSE IF ExcludeHit(cfg, rel_path) THEN OkFiles(<<>>)
       ELSE IF IsFile(f, entry_path)
            THEN IF IncludeMiss(cfg, rel_path) THEN OkFiles(<<>>)
                 ELSE SelectFile(f, cfg, FALSE, rel_path, entry_path, entry_path)
       ELSE IF IsDir(f, entry_path) /\ cfg.is_recursive
            THEN TraverseDirectory(f, cfg, base, rel_path)
       ELSE OkFiles(<<>>)

TraverseEntries(f, cfg, base, rel, entries, i) ==
    IF i > Len(entries) THEN OkFiles(<<>>)
    ELSE Then(TraverseEntry(f, cfg, base, rel, entries[i]),
              TraverseEntries(f, cfg, base, rel, entries, i + 1))

\* traverse_directory answering a failed listing with an empty result.
TraverseDirectory_SkipUnlistable(f, cfg, base, rel) ==
    LET current_path == base \o rel
    IN IF ~(current_path \in f.dirs) THEN OkFiles(<<>>)
       ELSE IF current_path \in f.unlistable THEN OkFiles(<<>>)
       ELSE TraverseEntries(f, cfg, base, rel, ReadDir(f, current_path), 1)

\* FileContext::traverse_directory with root_path = base (canonical) and
\* current_path = base \o rel.
TraverseDirectory(f, cfg, base, rel) ==
    LET current_path == base \o rel
    IN IF ~(current_path \in f.dirs) THEN OkFiles(<<>>)
       ELSE IF current_path \in f.unlistable THEN ErrFiles
       ELSE TraverseEntries(f, cfg, base, rel, ReadDir(f, current_path), 1)

\* FileContext::discover_files(root_path, config): the traversal starts at
\* root_path and relative paths are taken against root_path.
DiscoverFiles(f, cfg, root_path) ==
    IF ~GlobsetsBuilt(cfg) THEN ErrFiles
    ELSE TraverseDirectory(f, cfg, root_path, <<>>)

\* FileContext::from_root(config, root_path)
FromRoot(f, cfg, root_path) ==
    DiscoverFiles(f, cfg, root_path)

\* The body of the loop of from_target_paths for one target.
FromTarget(f, cfg, repo_root, target) ==
    LET abs_target_path == AbsTargetPath(cfg, target)
        canon == Canonicalize(f, <<>>, abs_target_path)
    IN IF canon[1] /\ IsFile(f, canon[2])
       THEN LET rel_path == StripPrefix(abs_target_path, repo_root)
            IN IF rel_path[1]
               THEN SelectFile(f, cfg, FALSE, rel_path[2], canon[2], abs_target_path)
               ELSE SelectFile(f, cfg, TRUE, abs_target_path, canon[2], abs_target_path)
       ELSE IF canon[1] /\ IsDir(f, canon[2])
            THEN DiscoverFiles(f, cfg, canon[2])
       ELSE Warned("missing", abs_target_path)

RECURSIVE FromTargetsFrom(_, _, _, _)

\* FromTargetsFrom keeping only the first record of each file.
FromTargetsFrom_Dedup(f, cfg, repo_root, i) ==
    IF i > Len(cfg.target_paths) THEN OkFiles(<<>>)
    ELSE LET here == FromTarget(f, cfg, repo_root, cfg.target_paths[i])
             rest == FromTargetsFrom(f, cfg, repo_root, i + 1)
         IN Then(here,
                 [rest EXCEPT !.files =
                     SelectSeq(rest.files,
                               LAMBDA r : \A j \in 1..Len(here.files) :
                                             here.files[j].file # r.file)])

\* The loop of from_target_paths from the i-th target on.
FromTargetsFrom(f, cfg, repo_root, i) ==
    IF i > Len(cfg.target_paths) THEN OkFiles(<<>>)
    ELSE Then(FromTarget(f, cfg, repo_root, cfg.target_paths[i]),
              FromTargetsFrom(f, cfg, repo_root, i + 1))

\* FileContext::from_target_paths(config, repo_root)
FromTargetPaths(f, cfg, repo_root) ==
    FromTargetsFrom(f, cfg, repo_root, 1)

(* --------------------------- tree rendering ---------------------------- *)

\* A rendered tree is the sequence of its lines in the order ptree prints them
\* (a node, then its children).  A line is [path, is_file]: path is the chain
\* of names from the root node down to the node (its last name is the text of
\* the line, its length the indentation); is_file tells a file leaf from a
\* directory node.  The root node has the empty path.
Node(path, is_file) == [path |-> path, is_file |-> is_file]

OkTree(lines) == [ok |-> TRUE, tree |-> lines]

ErrTree == [ok |-> FALSE, tree |-> <<>>]

\* TreeContext::should_include_path
ShouldIncludePath(cfg, rel, is_file) ==
    IF ExcludeHit(cfg, rel) THEN FALSE
    ELSE IF ~is_file THEN TRUE
    ELSE ~IncludeMiss(cfg, rel)

\* The entries left in the order read_dir and the filter gave them.
SortByFileName_AsListed(entries) == entries

\* entries.sort_by_key(|a| a.file_name())
SortByFileName(entries) ==
    SortNames({ entries[i] : i \in 1..Len(entries) })

\* The sorted entries of a directory: read_dir, then sort_by_key(file_name).
SortedEntries(f, dir) == SortByFileName(ReadDir(f, dir))

RECURSIVE BuildTreeRecursive(_, _, _)
RECURSIVE BuildTreeEntries(_, _, _, _, _)

\* BuildTreeEntry filling every directory node, whatever is_recursive says.
BuildTreeEntry_AlwaysRecurse(f, cfg, rel, name) ==
    LET rel_path == Append(rel, name)
        entry_path == cfg.root_path \o rel_path
        is_file == IsFile(f, entry_path)
    IN IF ~ShouldIncludePath(cfg, rel_path, is_file) THEN OkTree(<<>>)
       ELSE IF IsDir(f, entry_path)
            THEN LET sub == BuildTreeRecursive(f, cfg, rel_path)
                 IN IF ~sub.ok THEN ErrTree
                    ELSE OkTree(<<Node(rel_path, FALSE)>> \o sub.tree)
       ELSE IF is_file
            THEN IF cfg.recent_only /\ IsRecentlyModified(f, entry_path) # "recent"
                 THEN OkTree(<<>>)
                 ELSE OkTree(<<Node(rel_path, TRUE)>>)
       ELSE OkTree(<<>>)

\* One iteration of the loop of build_tree_recursive.
BuildTreeEntry(f, cfg, rel, name) ==
    LET rel_path == Append(rel, name)
        entry_path == cfg.root_path \o rel_path
        is_file == IsFile(f, entry_path)
    IN IF ~ShouldIncludePath(cfg, rel_path, is_file) THEN OkTree(<<>>)
       ELSE IF IsDir(f, entry_path)
            THEN IF cfg.is_recursive
                 THEN LET sub == BuildTreeRecursive(f, cfg, rel_path)
                      IN IF ~sub.ok THEN ErrTree
                         ELSE OkTree(<<Node(rel_path, FALSE)>> \o sub.tree)
                 ELSE OkTree(<<Node(rel_path, FALSE)>>)
       ELSE IF is_file
            THEN IF cfg.recent_only /\ IsRecentlyModified(f, entry_path) # "recent"
                 THEN OkTree(<<>>)
                 ELSE OkTree(<<Node(rel_path, TRUE)>>)
       ELSE OkTree(<<>>)

BuildTreeEntries(f, cfg, rel, entries, i) ==
    IF i > Len(entries) THEN OkTree(<<>>)
    ELSE LET here == BuildTreeEntry(f, cfg, rel, entries[i])
         IN IF ~here.ok THEN ErrTree
            ELSE LET rest == BuildTreeEntries(f, cfg, rel, entries, i + 1)
                 IN IF ~rest.ok THEN ErrTree
                    ELSE OkTree(here.tree \o rest.tree)

\* TreeContext::build_tree_recursive on current_path = root_path \o rel.
BuildTreeRecursive(f, cfg, rel) ==
    LET current_path == cfg.root_path \o rel
    IN IF ~(current_path \in f.dirs) THEN OkTree(<<>>)
       ELSE IF current_path \in f.unlistable THEN ErrTree
       ELSE BuildTreeEntries(f, cfg, rel, SortedEntries(f, current_path), 1)

\* TreeContext::build_tree_from_root
BuildTreeFromRoot(f, cfg) ==
    IF ~GlobsetsBuilt(cfg) THEN ErrTree
    ELSE LET sub == BuildTreeRecursive(f, cfg, <<>>)
         IN IF ~sub.ok THEN ErrTree
            ELSE OkTree(<<Node(<<>>, FALSE)>> \o sub.tree)

\* target_path.canonicalize() of root_path.join(target) (or the absolute target).
CanonicalTarget(f, cfg, target) ==
    Canonicalize(f, <<>>, AbsTargetPath(cfg, target))

\* root_path.canonicalize()
CanonicalRoot(f, cfg) ==
    Canonicalize(f, <<>>, cfg.root_path)

\* TargetIsRoot looking at the first target only.
TargetIsRoot_FirstOnly(f, cfg) ==
    LET ct == CanonicalTarget(f, cfg, cfg.target_paths[1])
        cr == CanonicalRoot(f, cfg)
    IN ct[1] /\ cr[1] /\ ct[2] = cr[2]

\* The first loop of build_tree_from_targets: some target is the root itself.
TargetIsRoot(f, cfg) ==
    \E i \in 1..Len(cfg.target_paths) :
        LET ct == CanonicalTarget(f, cfg, cfg.target_paths[i])
            cr == CanonicalRoot(f, cfg)
        IN ct[1] /\ cr[1] /\ ct[2] = cr[2]

\* AcceptedTargets without the starts_with(canonical_root) test.
AcceptedTargets_NoRootCheck(f, cfg) ==
    LET cr == CanonicalRoot(f, cfg)
        cts == { CanonicalTarget(f, cfg, cfg.target_paths[i]) :
                   i \in 1..Len(cfg.target_paths) }
    IN { ct[2] : ct \in { c \in cts : c[1] /\ cr[1] } }

\* The targets the second loop of build_tree_from_targets accepts: they
\* canonicalize and lie at or under the canonical root.
AcceptedTargets(f, cfg) ==
    LET cr == CanonicalRoot(f, cfg)
        cts == { CanonicalTarget(f, cfg, cfg.target_paths[i]) :
                   i \in 1..Len(cfg.target_paths) }
    IN { ct[2] : ct \in { c \in cts : c[1] /\ cr[1] /\ IsPrefix(cr[2], c[2]) } }

\* TreePaths without the walk up the parents: the targets alone.
TreePaths_NoAncestors(f, cfg) == AcceptedTargets(f, cfg)

\* tree_paths: every accepted target with its ancestors up to the canonical root.
TreePaths(f, cfg) ==
    LET root == CanonicalRoot(f, cfg)[2]
    IN UNION { { SubSeq(t, 1, k) : k \in Len(root)..Len(t) } : t \in AcceptedTargets(f, cfg) }

\* TargetDirectories that never marks a directory as fully expanded.
TargetDirectories_None(f, cfg) == {}

\* target_directories: the accepted targets that are directories.
TargetDirectories(f, cfg) ==
    { t \in AcceptedTargets(f, cfg) : IsDir(f, t) }

\* The filter on the entries of build_tree_from_target_paths.
InTargetTree(tree_paths, target_directories, canonical_path) ==
    \/ canonical_path \in tree_paths
    \/ \E target_dir \in target_directories : IsPrefix(target_dir, canonical_path)

RECURSIVE BuildTreeFromTargetPaths(_, _, _, _, _)
RECURSIVE BuildTargetEntries(_, _, _, _, _, _, _)

\* BuildTargetEntry that leaves out what an exclude pattern matches and
\* fills directory nodes only when is_recursive is set.
BuildTargetEntry_Filtering(f, cfg, rel, tree_paths, target_directories, name) ==
    LET rel_path == Append(rel, name)
        entry_path == cfg.root_path \o rel_path
    IN IF ExcludeHit(cfg, rel_path) THEN OkTree(<<>>)
       ELSE IF IsDir(f, entry_path)
       THEN IF ~cfg.is_recursive THEN OkTree(<<Node(rel_path, FALSE)>>)
            ELSE LET sub == BuildTreeFromTargetPaths(f, cfg, rel_path, tree_paths,
                                                     target_directories)
                 IN IF ~sub.ok THEN ErrTree
                    ELSE OkTree(<<Node(rel_path, FALSE)>> \o sub.tree)
       ELSE IF cfg.recent_only /\ IsRecentlyModified(f, entry_path) # "recent"
            THEN OkTree(<<>>)
            ELSE OkTree(<<Node(rel_path, TRUE)>>)

\* One iteration of the loop of build_tree_from_target_paths.
BuildTargetEntry(f, cfg, rel, tree_paths, target_directories, name) ==
    LET rel_path == Append(rel, name)
        entry_path == cfg.root_path \o rel_path
    IN IF IsDir(f, entry_path)
       THEN LET sub == BuildTreeFromTargetPaths(f, cfg, rel_path, tree_paths,
                                                target_directories)
            IN IF ~sub.ok THEN ErrTree
               ELSE OkTree(<<Node(rel_path, FALSE)>> \o sub.tree)
       ELSE IF cfg.recent_only /\ IsRecentlyModified(f, entry_path) # "recent"
            THEN OkTree(<<>>)
            ELSE OkTree(<<Node(rel_path, TRUE)>>)

BuildTargetEntries(f, cfg, rel, tree_paths, target_directories, entries, i) ==
    IF i > Len(entries) THEN OkTree(<<>>)
    ELSE LET here == BuildTargetEntry(f, cfg, rel, tree_paths, target_directories,
                                      entries[i])
         IN IF ~here.ok THEN ErrTree
            ELSE LET rest == BuildTargetEntries(f, cfg, rel, tree_paths,
                                                target_directories, entries, i + 1)
                 IN IF ~rest.ok THEN ErrTree
                    ELSE OkTree(here.tree \o rest.tree)

\* TreeContext::build_tree_from_target_paths on current_path = root_path \o rel.
BuildTreeFromTargetPaths(f, cfg, rel, tree_paths, target_directories) ==
    LET current_path == cfg.root_path \o rel
    IN IF ~(current_path \in f.dirs) THEN OkTree(<<>>)
       ELSE IF current_path \in f.unlistable THEN ErrTree
       ELSE BuildTargetEntries(f, cfg, rel, tree_paths, target_directories,
              SortByFileName(
                  SelectSeq(ReadDir(f, current_path),
                            LAMBDA n : InTargetTree(tree_paths, target_directories,
                                                    Append(current_path, n)))),
              1)

\* TreeContext::build_tree_from_targets
BuildTreeFromTargets(f, cfg) ==
    IF Len(cfg.target_paths) = 0 THEN BuildTreeFromRoot(f, cfg)
    ELSE IF TargetIsRoot(f, cfg) THEN BuildTreeFromRoot(f, cfg)
    ELSE LET sub == BuildTreeFromTargetPaths(f, cfg, <<>>, TreePaths(f, cfg),
                                             TargetDirectories(f, cfg))
         IN IF ~sub.ok THEN ErrTree
            ELSE OkTree(<<Node(<<>>, FALSE)>> \o sub.tree)

(* ------------------------------ document ------------------------------- *)

\* The buffer of a new OutputContext: nothing formatted yet.
NoDocument == [generated |-> FALSE, files |-> <<>>]

\* dump_file_entry testing is_binary only: every record without content gets
\* the binary message.
DumpFileEntry_BinaryForAll(file) ==
    IF file.content.some THEN "content" ELSE "binary"

\* OutputContext::dump_file_entry: which body the document prints for a record:
\* the fenced content, "*Binary file - content not displayed*" or
\* "*Content not available*".
DumpFileEntry(file) ==
    IF file.content.some THEN "content"
    ELSE IF file.is_binary THEN "binary"
    ELSE "not_available"

\* format_markdown, the per-file part: one section per record, in record
\* order, headed by the record's path.
FormatMarkdown(files) ==
    [generated |-> TRUE,
     files |-> [i \in 1..Len(files) |->
                  [path |-> files[i].path, body |-> DumpFileEntry(files[i])]]]

(* ------------------------------ context -------------------------------- *)

\* What Repository::discover finds from the root path: a repository with a
\* commit at HEAD, none, a bare repository (no working directory), or one
\* whose HEAD names no commit yet.
RepoStates == {"ok", "undiscoverable", "bare", "unborn"}

\* ContextManager::new: context: None.
NoContext == [some |-> FALSE]

\* Some(RepositoryContext { root_path, git_info, file_ctx, tree_repr })
SomeContext(root_path, git_info, file_ctx, tree_repr) ==
    [some |-> TRUE, root_path |-> root_path, git_info |-> git_info,
     file_ctx |-> file_ctx, tree_repr |-> tree_repr]

\* A GitInfo no field of which was read.
NoGitInfo == [is_repo |-> FALSE]

\* ContextManager::discover_repository
DiscoverRepository(r) == [ok |-> r # "undiscoverable"]

\* get_repo_root_path: repo.workdir().ok_or("Failed to get workdir")
GetRepoRootPath(r, cfg) ==
    IF r = "bare" THEN [ok |-> FALSE, path |-> <<>>]
    ELSE [ok |-> TRUE, path |-> cfg.root_path]

\* git::extract_git_info: repo.head()? and head.peel_to_commit()?
ExtractGitInfo(r) ==
    IF r = "unborn" THEN [ok |-> FALSE, info |-> NoGitInfo]
    ELSE [ok |-> TRUE, info |-> [is_repo |-> TRUE]]

\* ContextManager::build_file_context
BuildFileContext(f, cfg, repo_root) ==
    IF Len(cfg.target_paths) = 0 THEN FromRoot(f, cfg, repo_root)
    ELSE FromTargetPaths(f, cfg, repo_root)

\* ContextManager::build_tree_representation
BuildTreeRepresentation(f, cfg) ==
    IF Len(cfg.target_paths) = 0 THEN BuildTreeFromRoot(f, cfg)
    ELSE BuildTreeFromTargets(f, cfg)

\* build_context storing the context before the git metadata is read: when
\* that read fails the manager keeps a context without git metadata.
BuildContext_AssignBeforeGitInfo(f, cfg, r, ctx) ==
    LET failed == [ok |-> FALSE, context |-> ctx]
        root == GetRepoRootPath(r, cfg)
    IN IF ~DiscoverRepository(r).ok THEN failed
       ELSE IF ~root.ok THEN failed
       ELSE LET file_ctx == BuildFileContext(f, cfg, root.path)
            IN IF ~file_ctx.ok THEN failed
               ELSE LET tree_repr == BuildTreeRepresentation(f, cfg)
                        git_info == ExtractGitInfo(r)
                    IN IF ~tree_repr.ok THEN failed
                       ELSE [ok |-> git_info.ok,
                             context |-> SomeContext(root.path, git_info.info,
                                                     file_ctx.files, tree_repr.tree)]

\* ContextManager::build_context on a manager whose context is ctx: the
\* result and the manager's context afterwards. Every `?` returns before the
\* assignment to self.context, the one inside the struct literal included.
BuildContext(f, cfg, r, ctx) ==
    LET failed == [ok |-> FALSE, context |-> ctx]
        root == GetRepoRootPath(r, cfg)
    IN IF ~DiscoverRepository(r).ok THEN failed
       ELSE IF ~root.ok THEN failed
       ELSE LET file_ctx == BuildFileContext(f, cfg, root.path)
            IN IF ~file_ctx.ok THEN failed
               ELSE LET tree_repr == BuildTreeRepresentation(f, cfg)
                        git_info == ExtractGitInfo(r)
                    IN IF ~tree_repr.ok THEN failed
                       ELSE IF ~git_info.ok THEN failed
                       ELSE [ok |-> TRUE,
                             context |-> SomeContext(root.path, git_info.info,
                                                     file_ctx.files, tree_repr.tree)]

\* No OutputContext constructed yet.
NoOutput == [state |-> "none", context |-> NoContext, buffer |-> NoDocument]

\* OutputContext::new without its assertion.
OutputContextNew_Unchecked(ctx) ==
    [state |-> "constructed", context |-> ctx, buffer |-> NoDocument]

\* OutputContext::new(context_manager): assert!(context.is_some()), then the
\* manager is moved into the OutputContext with an empty buffer.
OutputContextNew(ctx) ==
    IF ~ctx.some THEN [state |-> "panicked", context |-> ctx, buffer |-> NoDocument]
    ELSE [state |-> "constructed", context |-> ctx, buffer |-> NoDocument]

\* OutputContext::generate, Markdown format: the error "Context not built"
\* when the moved manager holds no context, else the formatted buffer.
Generate(out) ==
    IF ~out.context.some THEN [out EXCEPT !.state = "context_not_built"]
    ELSE [out EXCEPT !.state = "generated",
                     !.buffer = FormatMarkdown(out.context.file_ctx)]

(* ------------------------- inputs and actions -------------------------- *)

RECURSIVE Shapes(_)
\* The sets of at most n entries below the root that are closed under parent
\* and nest at most MaxDepth deep.
Shapes(n) ==
    IF n = 0 THEN {{}}
    ELSE LET S == Shapes(n - 1)
         IN S \cup UNION { { E \cup {Append(p, nm)} :
                               p \in { q \in E \cup {RootPath} : Len(q) <= MaxDepth },
                               nm \in Names } : E \in S }

\* The entries of a shape that have no entry below them.
Leaves(E) == { p \in E : ~\E q \in E : Parent(q) = p }

\* The order in which read_dir lists names (not the sorted one).
ListingOrder == <<NB, NHid, NA>>

\* The clock at the start of a run, the modification time of a file modified
\* exactly seven days before, and that of a file modified a second earlier.
Now == SevenDays + 10

EdgeTime == Now - SevenDays

StaleTime == EdgeTime - 1

\* The bytes "a\nb": what every file holds where the contents do not matter.
DefaultData == FileData(3, {}, {1}, {})

\* The one file that may fail create_file_entry (its metadata cannot be read).
UnreadableCandidates == { Append(RootPath, NB) }

\* The directory trees: a shape, each leaf a file or an empty directory, the
\* rest directories; one file next to the root; a stale file only where the
\* recency filter can see it.
Filesystems(recent_only) ==
    UNION { UNION { { [dirs |-> {RootPath} \cup (E \ F),
                       files |-> F \cup {OutPath},
                       mtime |-> [p \in F \cup {OutPath} |->
                                    IF p \in St THEN StaleTime ELSE EdgeTime],
                       now |-> Now,
                       nomtime |-> {},
                       unreadable |-> Un,
                       unlistable |-> {},
                       unopenable |-> {},
                       unstatable |-> {},
                       data |-> [p \in F \cup {OutPath} |-> DefaultData],
                       order |-> ListingOrder] :
                        St \in IF recent_only
                               THEN { T \in SUBSET F : Cardinality(T) <= 1 }
                               ELSE {{}},
                        Un \in SUBSET (F \cap UnreadableCandidates) } :
                    F \in SUBSET Leaves(E) } :
            E \in Shapes(MaxEntries) }

\* Glob patterns as token sequences.
PatNamedB == <<"**/", "b">>
PatEndsInA == <<"*", "a">>
PatTopA == <<"a">>
PatUnderA == <<"a", "/**">>

\* The include and exclude pattern lists a caller may give.
IncludeChoices == { <<>>, <<PatNamedB>>, <<PatEndsInA, PatNamedB>> }

ExcludeChoices == { <<>>, <<PatTopA>>, <<PatUnderA>> }

\* The flag pairs <<is_recursive, recent_only>> explored.
FlagChoices == { <<TRUE, FALSE>>, <<FALSE, FALSE>>, <<TRUE, TRUE>> }

Rel(segs) == [absolute |-> FALSE, segs |-> segs]

Abs(segs) == [absolute |-> TRUE, segs |-> segs]

\* The non-empty target lists a caller may give: an entry of the root, a
\* nested entry, a hidden entry, the root written two ways, a file outside the
\* root, an absolute path, and pairs of these (a repeated target, a directory
\* with an entry inside it, the root after or before another target, a
\* nested entry with the file outside the root).
TargetLists ==
    { <<Rel(<<NA>>)>>, <<Rel(<<NA, NB>>)>>, <<Rel(<<NHid>>)>>, <<Rel(<<Dot>>)>>,
      <<Rel(<<NA, DotDot>>)>>, <<Rel(<<DotDot, NOut>>)>>, <<Abs(<<NRoot, NB>>)>>,
      <<Rel(<<NA, NB>>), Abs(<<NRoot, NB>>)>>,
      <<Rel(<<NA>>), Rel(<<NA>>)>>,
      <<Rel(<<NA>>), Rel(<<NA, NB>>)>>,
      <<Rel(<<NA, NB>>), Rel(<<Dot>>)>>,
      <<Rel(<<Dot>>), Rel(<<DotDot, NOut>>)>>,
      <<Rel(<<NHid>>), Rel(<<NA, NB>>)>>,
      <<Rel(<<NA, NB>>), Rel(<<DotDot, NOut>>)>> }

\* The filter settings explored together with a target list.
TargetFilters ==
    { <<<<>>, <<>>, TRUE, FALSE>>,
      <<<<PatEndsInA, PatNamedB>>, <<PatUnderA>>, TRUE, FALSE>>,
      <<<<>>, <<PatTopA>>, FALSE, TRUE>> }

Config(targets, include, exclude, recursive, recent) ==
    [root_path |-> RootPath,
     target_paths |-> targets,
     include_patterns |-> include,
     exclude_patterns |-> exclude,
     is_recursive |-> recursive,
     recent_only |-> recent]

\* Whole-root configurations (no targets) and target configurations.
RootConfigs ==
    { Config(<<>>, inc, exc, fl[1], fl[2]) :
        inc \in IncludeChoices, exc \in ExcludeChoices, fl \in FlagChoices }

TargetConfigs ==
    { Config(t, tf[1], tf[2], tf[3], tf[4]) : t \in TargetLists, tf \in TargetFilters }

Configs == RootConfigs \cup TargetConfigs

Unset == [ok |-> FALSE, unset |-> TRUE]

Init ==
    /\ config \in Configs
    /\ fs \in Filesystems(config.recent_only)
    /\ file_entries = Unset
    /\ file_op = "none"
    /\ tree_str = Unset
    /\ tree_op = "none"
    /\ document = NoDocument
    /\ repo = "ok"
    /\ context = NoContext
    /\ build_results = <<>>
    /\ output = NoOutput

\* The longest small file whose bytes are enumerated in full.
MaxSmall == 6

\* Small files: every placing of newlines, and optionally one zero byte or one
\* invalid byte at the first offset that holds no newline.
SmallData ==
    UNION { UNION { LET free == (0..(n - 1)) \ nl
                    IN {FileData(n, {}, nl, {})} \cup
                       (IF free = {} THEN {}
                        ELSE { FileData(n, {MinOf(free)}, nl, {}),
                               FileData(n, {}, nl, {MinOf(free)}) }) :
                    nl \in SUBSET (0..(n - 1)) } :
            n \in 0..MaxSmall }

\* Large files: sizes around the sniff window and around the content limit,
\* zero bytes just inside and just outside the window, an invalid byte, a
\* newline at the start or at the very end.
LargeData ==
    UNION { { FileData(n, zero, nl, bad) :
                zero \in SUBSET { z \in {SniffLen - 1, SniffLen} : z < n - 1 },
                nl \in { {}, {1}, {n - 1} },
                bad \in { {}, {SniffLen - 2} } } :
            n \in { SniffLen + 1, SniffLen + 2,
                    ContentLimit - 1, ContentLimit, ContentLimit + 1 } }

DataChoices == SmallData \cup LargeData

\* A root holding the files a and b: a carries the bytes under study, b the
\* default bytes; at most one of them cannot be opened.
ContentFilesystems ==
    { [dirs |-> {RootPath},
       files |-> {Append(RootPath, NA), Append(RootPath, NB)},
       mtime |-> [p \in {Append(RootPath, NA), Append(RootPath, NB)} |-> EdgeTime],
       now |-> Now,
       nomtime |-> {},
       unreadable |-> {},
       unlistable |-> {},
       unopenable |-> un,
       unstatable |-> {},
       data |-> [p \in {Append(RootPath, NA), Append(RootPath, NB)} |->
                    IF p = Append(RootPath, NA) THEN d ELSE DefaultData],
       order |-> ListingOrder] :
        d \in DataChoices,
        un \in { {}, {Append(RootPath, NA)}, {Append(RootPath, NB)} } }

\* Whole-root selection, the file a as the only target, both files as targets.
ContentConfigs ==
    { Config(<<>>, <<>>, <<>>, TRUE, FALSE),
      Config(<<Rel(<<NA>>)>>, <<>>, <<>>, TRUE, FALSE),
      Config(<<Rel(<<NB>>), Rel(<<NA>>)>>, <<>>, <<>>, TRUE, FALSE) }

InitContent ==
    /\ config \in ContentConfigs
    /\ fs \in ContentFilesystems
    /\ file_entries = Unset
    /\ file_op = "none"
    /\ tree_str = Unset
    /\ tree_op = "none"
    /\ document = NoDocument
    /\ repo = "ok"
    /\ context = NoContext
    /\ build_results = <<>>
    /\ output = NoOutput

\* Entries below the root in the trees that carry a fault.
MaxFaultEntries == 2

\* A filesystem with the fault `kind` at the path `at` ("none": no fault).
FaultFs(D, F, kind, at) ==
    [dirs |-> D,
     files |-> F \cup {OutPath},
     mtime |-> [p \in F \cup {OutPath} |->
                  IF kind = "stale" /\ p = at THEN StaleTime ELSE EdgeTime],
     now |-> Now,
     nomtime |-> IF kind = "nomtime" THEN {at} ELSE {},
     unreadable |-> IF kind = "unreadable" THEN {at} ELSE {},
     unlistable |-> IF kind = "unlistable" THEN {at} ELSE {},
     unopenable |-> IF kind = "unopenable" THEN {at} ELSE {},
     unstatable |-> IF kind = "unstatable" THEN {at} ELSE {},
     data |-> [p \in F \cup {OutPath} |-> DefaultData],
     order |-> ListingOrder]

\* The faults of single files.
FileFaults == {"nomtime", "stale", "unreadable", "unopenable", "unstatable"}

\* The trees of at most MaxFaultEntries entries, each without a fault, with
\* one fault at one of its files, or with one directory whose listing fails;
\* and the two cases of a root that is no directory: missing, or a file.
FaultFilesystems ==
    UNION { UNION { {FaultFs({RootPath} \cup (E \ F), F, "none", <<>>)}
                    \cup { FaultFs({RootPath} \cup (E \ F), F, k, p) :
                             k \in FileFaults, p \in F }
                    \cup { FaultFs({RootPath} \cup (E \ F), F, "unlistable", d) :
                             d \in {RootPath} \cup (E \ F) } :
                    F \in SUBSET Leaves(E) } :
            E \in Shapes(MaxFaultEntries) }
    \cup { FaultFs({}, {}, "none", <<>>), FaultFs({}, {RootPath}, "none", <<>>) }

\* A pattern that does not compile: "a[".
PatUnclosed == <<"a", "[">>

\* Pattern lists <<include, exclude>>: none, a malformed include pattern (alone
\* or after a good one), a malformed exclude pattern.
FaultFilters ==
    { <<<<>>, <<>>>>,
      <<<<PatUnclosed>>, <<>>>>,
      <<<<PatNamedB, PatUnclosed>>, <<>>>>,
      <<<<>>, <<PatUnclosed>>>> }

\* No targets, one target, two targets in both orders.
FaultTargetLists ==
    { <<>>, <<Rel(<<NA>>)>>, <<Rel(<<NB>>)>>,
      <<Rel(<<NB>>), Rel(<<NA>>)>>, <<Rel(<<NA>>), Rel(<<NB>>)>> }

FaultConfigs ==
    { Config(t, pf[1], pf[2], TRUE, recent) :
        t \in FaultTargetLists, pf \in FaultFilters, recent \in BOOLEAN }

InitFaults ==
    /\ config \in FaultConfigs
    /\ fs \in FaultFilesystems
    /\ file_entries = Unset
    /\ file_op = "none"
    /\ tree_str = Unset
    /\ tree_op = "none"
    /\ document = NoDocument
    /\ repo = "ok"
    /\ context = NoContext
    /\ build_results = <<>>
    /\ output = NoOutput

\* Entries below the root in the trees that are selected and rendered
\* repeatedly.
MaxRunEntries == 3

\* Seconds the clock may advance between runs.
MaxTicks == 1

\* Orders in which read_dir may list the names: the one used elsewhere, the
\* sorted one, and a third.
ListingOrders == { ListingOrder, <<NHid, NA, NB>>, <<NA, NB, NHid>> }

\* The trees of at most MaxRunEntries entries, every file modified exactly
\* seven days before the first run, under each listing order.
RunFilesystems ==
    UNION { UNION { { [FaultFs({RootPath} \cup (E \ F), F, "none", <<>>)
                         EXCEPT !.order = o] : o \in ListingOrders } :
                    F \in SUBSET Leaves(E) } :
            E \in Shapes(MaxRunEntries) }

\* Whole-root runs, and runs with the directory or file a as the target; with
\* and without the recency filter.
RunConfigs ==
    { Config(t, <<>>, <<>>, TRUE, recent) :
        t \in { <<>>, <<Rel(<<NA>>)>> }, recent \in BOOLEAN }

InitRuns ==
    /\ config \in RunConfigs
    /\ fs \in RunFilesystems
    /\ file_entries = Unset
    /\ file_op = "none"
    /\ tree_str = Unset
    /\ tree_op = "none"
    /\ document = NoDocument
    /\ repo = "ok"
    /\ context = NoContext
    /\ build_results = <<>>
    /\ output = NoOutput

\* FileContext::from_root(config, root_path) on the repository root.
from_root ==
    /\ file_entries' = FromRoot(fs, config, config.root_path)
    /\ file_op' = "from_root"
    /\ document' = NoDocument
    /\ UNCHANGED <<fs, config, tree_str, tree_op,
                   repo, context, build_results, output>>

\* FileContext::from_target_paths(config, repo_root)
from_target_paths ==
    /\ file_entries' = FromTargetPaths(fs, config, config.root_path)
    /\ file_op' = "from_target_paths"
    /\ document' = NoDocument
    /\ UNCHANGED <<fs, config, tree_str, tree_op,
                   repo, context, build_results, output>>

\* TreeContext::build_tree_from_root
build_tree_from_root ==
    /\ tree_str' = BuildTreeFromRoot(fs, config)
    /\ tree_op' = "build_tree_from_root"
    /\ document' = NoDocument
    /\ UNCHANGED <<fs, config, file_entries, file_op,
                   repo, context, build_results, output>>

\* TreeContext::build_tree_from_targets
build_tree_from_targets ==
    /\ tree_str' = BuildTreeFromTargets(fs, config)
    /\ tree_op' = "build_tree_from_targets"
    /\ document' = NoDocument
    /\ UNCHANGED <<fs, config, file_entries, file_op,
                   repo, context, build_results, output>>

\* OutputContext::generate on a built context (build_context sets the context
\* only after the selection and the tree both succeeded).
generate ==
    /\ file_op # "none" /\ file_entries.ok
    /\ tree_op # "none" /\ tree_str.ok
    /\ ~document.generated
    /\ document' = FormatMarkdown(file_entries.files)
    /\ UNCHANGED <<fs, config, file_entries, file_op, tree_str, tree_op,
                   repo, context, build_results, output>>

\* Between two runs the system lists directories in another order; the
\* directory tree is as it was.
relist ==
    /\ \E o \in ListingOrders \ {fs.order} : fs' = [fs EXCEPT !.order = o]
    /\ UNCHANGED <<config, file_entries, file_op, tree_str, tree_op, document,
                   repo, context, build_results, output>>

\* Between two runs the clock advances by a second.
tick ==
    /\ fs.now < Now + MaxTicks
    /\ fs' = [fs EXCEPT !.now = @ + 1]
    /\ UNCHANGED <<config, file_entries, file_op, tree_str, tree_op, document,
                   repo, context, build_results, output>>

\* Calls of build_context on one manager.
MaxBuilds == 2

\* Trees without a fault or with one directory whose listing fails.
ContextFilesystems ==
    UNION { UNION { {FaultFs({RootPath} \cup (E \ F), F, "none", <<>>)}
                    \cup { FaultFs({RootPath} \cup (E \ F), F, "unlistable", d) :
                             d \in {RootPath} \cup (E \ F) } :
                    F \in SUBSET Leaves(E) } :
            E \in Shapes(MaxFaultEntries) }

\* The whole root or the target a, without patterns or with a malformed
\* include pattern.
ContextConfigs ==
    { Config(t, inc, <<>>, TRUE, FALSE) :
        t \in { <<>>, <<Rel(<<NA>>)>> }, inc \in { <<>>, <<PatUnclosed>> } }

\* ContextManager::new(config) in each repository state.
InitContext ==
    /\ config \in ContextConfigs
    /\ fs \in ContextFilesystems
    /\ file_entries = Unset
    /\ file_op = "none"
    /\ tree_str = Unset
    /\ tree_op = "none"
    /\ document = NoDocument
    /\ repo \in RepoStates
    /\ context = NoContext
    /\ build_results = <<>>
    /\ output = NoOutput

\* ContextManager::build_context, on a manager not yet moved into an
\* OutputContext.
build_context ==
    /\ output.state = "none"
    /\ Len(build_results) < MaxBuilds
    /\ LET r == BuildContext(fs, config, repo, context)
       IN /\ context' = r.context
          /\ build_results' = Append(build_results, r.ok)
    /\ UNCHANGED <<fs, config, file_entries, file_op, tree_str, tree_op, document,
                   repo, output>>

\* Between two calls of build_context the repository changes state.
change_repo ==
    /\ output.state = "none"
    /\ \E r \in RepoStates \ {repo} : repo' = r
    /\ UNCHANGED <<fs, config, file_entries, file_op, tree_str, tree_op, document,
                   context, build_results, output>>

\* OutputContext::new(manager)
OutputContext_new ==
    /\ output.state = "none"
    /\ output' = OutputContextNew(context)
    /\ UNCHANGED <<fs, config, file_entries, file_op, tree_str, tree_op, document,
                   repo, context, build_results>>

\* OutputContext::generate
OutputContext_generate ==
    /\ output.state = "constructed"
    /\ output' = Generate(output)
    /\ UNCHANGED <<fs, config, file_entries, file_op, tree_str, tree_op, document,
                   repo, context, build_results>>

Next ==
    \/ from_root
    \/ from_target_paths
    \/ build_tree_from_root
    \/ build_tree_from_targets

Spec == Init /\ [][Next]_vars

\* The same operations over the files whose bytes vary.
NextDocument == Next \/ generate

SpecContent == InitContent /\ [][NextDocument]_vars

\* Repeated runs over an unchanged directory tree.
NextRuns == Next \/ relist \/ tick

SpecRuns == InitRuns /\ [][NextRuns]_vars

\* The same operations over the filesystems and configurations with a fault.
SpecFaults == InitFaults /\ [][NextDocument]_vars

\* The life of one ContextManager and of the OutputContext it is moved into.
NextContext ==
    \/ build_context
    \/ change_repo
    \/ OutputContext_new
    \/ OutputContext_generate

SpecContext == InitContext /\ [][NextContext]_vars

(* ------------------------------ claims --------------------------------- *)

\* The entries that exist strictly below the repository root.
EntriesUnderRoot ==
    { p \in fs.dirs \cup fs.files : IsPrefix(RootPath, p) /\ p # RootPath }

\* The path of an entry relative to the repository root.
RootRel(p) == Drop(p, Len(RootPath))

\* Some name of the path begins with '.'.
HasDotSegment(p) == \E k \in 1..Len(p) : p[k][1] = "."

\* The files the records were made from, and the record list itself.
Records == file_entries.files

RecordedFiles == { Records[i].file : i \in 1..Len(Records) }

\* The entries rendered as nodes below the root node, and the file leaves.
RenderedEntries ==
    { RootPath \o tree_str.tree[i].path : i \in 2..Len(tree_str.tree) }

RenderedFiles ==
    { RootPath \o tree_str.tree[i].path :
        i \in { j \in 2..Len(tree_str.tree) : tree_str.tree[j].is_file } }

\* Where each target leads: the canonical paths of the targets that exist.
ResolvedTargets ==
    { c[2] : c \in { d \in { Canonicalize(fs, <<>>, AbsTargetPath(config, config.target_paths[i])) :
                               i \in 1..Len(config.target_paths) } : d[1] } }

\* The resolved targets at or under the root.
TargetsInRoot == { t \in ResolvedTargets : IsPrefix(RootPath, t) }

\* Some exclude pattern matches the root-relative path string.
Excluded(rel) ==
    \E i \in 1..Len(config.exclude_patterns) :
        GlobMatch(config.exclude_patterns[i], JoinPath(rel))

\* Some include pattern matches the root-relative path string.
Included(rel) ==
    \E i \in 1..Len(config.include_patterns) :
        GlobMatch(config.include_patterns[i], JoinPath(rel))

\* The entry or one of the directories above it (below the root) is excluded.
ExcludedOnTheWay(p) ==
    \E k \in 1..Len(RootRel(p)) : Excluded(SubSeq(RootRel(p), 1, k))

\* C1: in whole-root mode no record is for a file whose root-relative path
\* matches an exclude pattern, nor for a file beneath a directory whose
\* root-relative path matches one, also when the file matches an include pattern.
C1_ExcludePrecedence ==
    (file_op = "from_root" /\ file_entries.ok) =>
        \A p \in RecordedFiles : ~ExcludedOnTheWay(p)

\* C1 witness: whole-root selection ran over a tree holding a file that matches
\* an include pattern and lies beneath an excluded directory, and left it out.
C1_Witness ==
    /\ file_op = "from_root"
    /\ file_entries.ok
    /\ \E p \in fs.files :
          /\ IsPrefix(RootPath, p)
          /\ Included(RootRel(p))
          /\ ~Excluded(RootRel(p))
          /\ \E k \in 1..(Len(RootRel(p)) - 1) : Excluded(SubSeq(RootRel(p), 1, k))
          /\ ~HasDotSegment(RootRel(p))
          /\ p \notin RecordedFiles

\* The entries Strategy B is to render: a target inside the root, a directory
\* above such a target, or an entry beneath a directory target.
RelevantToTargets(e) ==
    \E t \in TargetsInRoot :
        \/ e = t
        \/ (IsPrefix(e, t) /\ e \in fs.dirs)
        \/ (t \in fs.dirs /\ IsPrefix(t, e))

\* Strategy B applies: there are targets and none of them is the root.
StrategyB ==
    /\ Len(config.target_paths) > 0
    /\ RootPath \notin ResolvedTargets

\* C2: in Strategy B without the recency filter, an entry under the root is a
\* node of the tree exactly when it is a target inside the root, a directory
\* above such a target or an entry beneath a directory target.
C2_PrunedTreeExact ==
    (tree_op = "build_tree_from_targets" /\ tree_str.ok /\ StrategyB
        /\ ~config.recent_only) =>
        RenderedEntries = { e \in EntriesUnderRoot : RelevantToTargets(e) }

\* C2 witness: a nested file target was rendered with its directory while an
\* entry next to it got no node.
C2_Witness ==
    /\ tree_op = "build_tree_from_targets"
    /\ tree_str.ok
    /\ StrategyB
    /\ ~config.recent_only
    /\ \E t \in TargetsInRoot :
          /\ t \in fs.files
          /\ Len(t) = 3
          /\ t \in RenderedEntries
          /\ Parent(t) \in RenderedEntries
    /\ \E e \in EntriesUnderRoot : e \notin RenderedEntries

\* C3: with no targets, or with any target that canonicalizes to the root,
\* build_tree_from_targets gives the tree build_tree_from_root gives.
C3_RootShortCircuit ==
    (tree_op = "build_tree_from_targets"
        /\ (Len(config.target_paths) = 0 \/ RootPath \in ResolvedTargets)) =>
        tree_str = BuildTreeFromRoot(fs, config)

\* C3 witness: the root came second in the target list, after a target that is
\* not the root, and the full tree with an entry filtered out was built.
C3_Witness ==
    /\ tree_op = "build_tree_from_targets"
    /\ tree_str.ok
    /\ Len(config.target_paths) = 2
    /\ Canonicalize(fs, <<>>, AbsTargetPath(config, config.target_paths[1]))
         # <<TRUE, RootPath>>
    /\ Canonicalize(fs, <<>>, AbsTargetPath(config, config.target_paths[2]))
         = <<TRUE, RootPath>>
    /\ Len(config.exclude_patterns) > 0
    /\ \E e \in EntriesUnderRoot : ~HasDotSegment(e) /\ e \notin RenderedEntries
    /\ \E e \in EntriesUnderRoot : e \in RenderedEntries /\ e \notin TargetsInRoot

\* C4: given one directory target strictly inside the root (no recency filter),
\* every entry at any depth beneath it is rendered, and nothing is rendered but
\* these, the target and the directories above it.
C4_DirectoryTargetExpanded ==
    (tree_op = "build_tree_from_targets" /\ tree_str.ok /\ ~config.recent_only
        /\ StrategyB) =>
        /\ \A t \in TargetsInRoot \cap fs.dirs :
              \A e \in EntriesUnderRoot : IsPrefix(t, e) => e \in RenderedEntries
        /\ \A t \in TargetsInRoot \cap fs.dirs :
              TargetsInRoot = {t} =>
                 \A e \in RenderedEntries : IsPrefix(t, e) \/ IsPrefix(e, t)

\* C4 witness: a directory target with an entry two levels beneath it, rendered
\* although only the directory was named.
C4_Witness ==
    /\ tree_op = "build_tree_from_targets"
    /\ tree_str.ok
    /\ ~config.recent_only
    /\ StrategyB
    /\ \E t \in TargetsInRoot \cap fs.dirs :
          /\ TargetsInRoot = {t}
          /\ \E e \in RenderedEntries : IsPrefix(t, e) /\ Len(e) = Len(t) + 2

\* C5: in target mode the path of every record is the file's path relative to
\* the repository root, for file targets and for files found beneath a
\* directory target alike (stated for the files that lie inside the root).
C5_PathsRootRelative ==
    (file_op = "from_target_paths" /\ file_entries.ok) =>
        \A i \in 1..Len(Records) :
            IsPrefix(RootPath, Records[i].file) =>
                /\ ~Records[i].path.absolute
                /\ Records[i].path.segs = RootRel(Records[i].file)

\* C6 as claimed: no record, in whole-root mode or in target mode, is for a
\* file whose name or one of whose directories begins with '.'.
C6_NoHiddenRecords ==
    (file_op # "none" /\ file_entries.ok) =>
        \A p \in RecordedFiles : ~HasDotSegment(p)

\* C6 as amended: no record found by directory traversal is for a file with a
\* name beginning with '.' at or below the directory the traversal started in
\* (the root in whole-root mode, a directory target in target mode), whatever
\* the glob patterns are; a file named as a target is recorded as it is.
C6_NoHiddenBelowTraversalStart ==
    /\ (file_op = "from_root" /\ file_entries.ok) =>
          \A p \in RecordedFiles : ~HasDotSegment(RootRel(p))
    /\ (file_op = "from_target_paths" /\ file_entries.ok) =>
          \A p \in RecordedFiles :
              \E t \in ResolvedTargets :
                  \/ t = p
                  \/ /\ t \in fs.dirs
                     /\ IsPrefix(t, p)
                     /\ ~HasDotSegment(Drop(p, Len(t)))

\* C6 witness: a traversal met a readable hidden file that an include pattern
\* matches and no exclude pattern stops, and made no record of it.
C6_Witness ==
    /\ file_op \in {"from_root", "from_target_paths"}
    /\ file_entries.ok
    /\ ~config.recent_only
    /\ \E p \in fs.files \ fs.unreadable :
          /\ IsPrefix(RootPath, p)
          /\ Len(p) > 1
          /\ Last(p)[1] = "."
          /\ Included(RootRel(p))
          /\ ~ExcludedOnTheWay(p)
          /\ \/ file_op = "from_root" /\ Len(p) = 2
             \/ file_op = "from_target_paths" /\ Parent(p) \in ResolvedTargets
          /\ p \notin RecordedFiles

\* C7: no node of a rendered tree, in either strategy, has a name beginning
\* with '.'.
C7_NoHiddenNodes ==
    (tree_op # "none" /\ tree_str.ok) =>
        \A e \in RenderedEntries : Last(e)[1] # "."

\* C8: with no targets, the file leaves of the full tree are the files of the
\* records of whole-root selection, when every file is readable.
C8_FullTreeMatchesSelection ==
    (file_op = "from_root" /\ tree_op = "build_tree_from_root"
        /\ file_entries.ok /\ tree_str.ok /\ fs.unreadable = {}) =>
        RenderedFiles = RecordedFiles

\* C9: in target mode the file leaves of the tree built from the targets are
\* the files recorded from the targets (stated where every file is readable,
\* no name begins with '.' and every target lies inside the root, so that the
\* hidden names of C7 play no part).
C9_TargetTreeMatchesSelection ==
    (file_op = "from_target_paths" /\ tree_op = "build_tree_from_targets"
        /\ Len(config.target_paths) > 0
        /\ file_entries.ok /\ tree_str.ok /\ fs.unreadable = {}
        /\ (\A p \in fs.dirs \cup fs.files : ~HasDotSegment(p))
        /\ ResolvedTargets = TargetsInRoot) =>
        RenderedFiles = RecordedFiles

\* C10: in whole-root mode with recursive=true and recentOnly=false, a readable
\* file with no hidden name and no excluded path on the way from the root is
\* selected exactly when there are no include patterns or one of them matches
\* its root-relative path; the directories above it need not match.
C10_IncludeOnFilesOnly ==
    (file_op = "from_root" /\ file_entries.ok
        /\ config.is_recursive /\ ~config.recent_only) =>
        \A p \in (fs.files \cap EntriesUnderRoot) \ fs.unreadable :
            (~HasDotSegment(RootRel(p)) /\ ~ExcludedOnTheWay(p)) =>
                (p \in RecordedFiles <=>
                    (Len(config.include_patterns) = 0 \/ Included(RootRel(p))))

\* C10 witness: a nested file was selected by an include pattern that matches
\* none of the directories above it, next to a file the patterns left out.
C10_Witness ==
    /\ file_op = "from_root"
    /\ file_entries.ok
    /\ config.is_recursive
    /\ ~config.recent_only
    /\ Len(config.include_patterns) > 0
    /\ \E p \in RecordedFiles :
          /\ Len(RootRel(p)) >= 2
          /\ \A k \in 1..(Len(RootRel(p)) - 1) : ~Included(SubSeq(RootRel(p), 1, k))
    /\ \E p \in (fs.files \cap EntriesUnderRoot) \ fs.unreadable :
          /\ ~HasDotSegment(RootRel(p))
          /\ ~ExcludedOnTheWay(p)
          /\ p \notin RecordedFiles


\* The files whole-root selection records beneath the directory t.
WholeRootBeneath(t) ==
    LET whole == FromRoot(fs, config, RootPath)
    IN { whole.files[i].file :
           i \in { j \in 1..Len(whole.files) : IsPrefix(t, whole.files[j].file) } }

\* C11: in recursive target mode a directory target selects exactly the files
\* that whole-root selection with the same patterns records beneath it (stated
\* for a single target that lies inside the root, is not the root, has no name
\* beginning with '.' on its path and is not itself pruned by an exclude
\* pattern in whole-root mode).
C11_DirTargetMatchesWholeRoot ==
    (/\ file_op = "from_target_paths"
     /\ file_entries.ok
     /\ config.is_recursive
     /\ Len(config.target_paths) = 1) =>
        \A t \in TargetsInRoot :
            (/\ t \in fs.dirs
             /\ t # RootPath
             /\ ~HasDotSegment(RootRel(t))
             /\ ~ExcludedOnTheWay(t)) =>
                RecordedFiles = WholeRootBeneath(t)


\* A selection has run and returned its records.
Selected == file_op # "none" /\ file_entries.ok

\* The bytes of the file a record was made from.
BytesOf(r) == fs.data[r.file]

\* A zero byte lies among the first 512 bytes.
ZeroInWindow(d) == \E z \in d.zero : z < 512

\* C12: every record has content exactly when it is not binary, its size is
\* below 1,000,000 bytes and its bytes are valid text; a binary record has 0
\* lines.
C12_ContentIff ==
    Selected =>
        \A i \in 1..Len(Records) :
            /\ Records[i].content.some <=>
                  (/\ ~Records[i].is_binary
                   /\ Records[i].size < 1000000
                   /\ BytesOf(Records[i]).bad = {})
            /\ Records[i].is_binary => Records[i].lines = 0
            /\ Records[i].is_binary => ~Records[i].content.some

\* C12 witness: a record of a valid text file of exactly 1,000,000 bytes
\* without content, next to a record that has content.
C12_Witness ==
    /\ Selected
    /\ \E i, j \in 1..Len(Records) :
          /\ Records[i].size = 1000000
          /\ ~Records[i].is_binary
          /\ BytesOf(Records[i]).bad = {}
          /\ ~Records[i].content.some
          /\ Records[j].content.some

\* The number of newline-delimited segments of the bytes d, a final
\* unterminated non-empty segment counted once.
Segments(d) ==
    Cardinality(d.nl) + (IF d.size > 0 /\ (d.size - 1) \notin d.nl THEN 1 ELSE 0)

\* C13: the lines of every non-binary record is the number of segments of its
\* file; in particular the empty file has 0 lines, and "a\nb\nc\n" (6 bytes,
\* newlines at 1, 3 and 5) and three bare newlines have 3 lines each.
C13_LineCount ==
    Selected =>
        \A i \in 1..Len(Records) :
            /\ ~Records[i].is_binary =>
                  Records[i].lines = Segments(BytesOf(Records[i]))
            /\ BytesOf(Records[i]) = FileData(0, {}, {}, {}) => Records[i].lines = 0
            /\ (BytesOf(Records[i]) = FileData(6, {}, {1, 3, 5}, {})
                  /\ ~Records[i].is_binary) => Records[i].lines = 3
            /\ (BytesOf(Records[i]) = FileData(3, {}, {0, 1, 2}, {})
                  /\ ~Records[i].is_binary) => Records[i].lines = 3

\* C13 witness: a record of "a\nb\nc" (5 bytes, newlines at 1 and 3) with 3
\* lines.
C13_Witness ==
    /\ Selected
    /\ \E i \in 1..Len(Records) :
          /\ BytesOf(Records[i]) = FileData(5, {}, {1, 3}, {})
          /\ ~Records[i].is_binary
          /\ Records[i].lines = 3

\* C14 as claimed: a record is binary exactly when a zero byte lies among the
\* first 512 bytes of its file.
C14_BinaryIffZeroInWindow ==
    Selected =>
        \A i \in 1..Len(Records) :
            Records[i].is_binary <=> ZeroInWindow(BytesOf(Records[i]))

\* C14 amended: for a file that can be opened, the record is binary exactly
\* when a zero byte lies among the first 512 bytes; a zero byte at offset 512
\* or later does not make it binary.
C14_BinaryIffZeroInWindowWhenOpened ==
    Selected =>
        \A i \in 1..Len(Records) :
            Records[i].file \notin fs.unopenable =>
                (Records[i].is_binary <=> ZeroInWindow(BytesOf(Records[i])))

\* C14 witness: a record of an opened file whose only zero byte is at offset
\* 512, not binary.
C14_Witness ==
    /\ Selected
    /\ \E i \in 1..Len(Records) :
          /\ Records[i].file \notin fs.unopenable
          /\ BytesOf(Records[i]).zero = {512}
          /\ ~Records[i].is_binary


\* The files whole-root selection is to record here: the files below the root
\* on no hidden path (the configurations of SpecContent carry no patterns).
Selectable ==
    { p \in fs.files : IsPrefix(RootPath, p) /\ ~HasDotSegment(RootRel(p)) }

\* The bytes hold no zero byte in the first 512 and are not valid text.
UndecodableText(d) == ~ZeroInWindow(d) /\ d.bad # {}

\* The document was generated from the records of the state.
Generated ==
    /\ Selected
    /\ document.generated
    /\ Len(document.files) = Len(Records)

\* C15 as claimed: a file with no zero byte in its first 512 bytes whose bytes
\* are not valid text yields a record with is_binary = false and no content,
\* the document prints 'Content not available' for it, and 'Binary file' only
\* for records with is_binary = true.
C15_UndecodableDistinct ==
    /\ (Selected /\ file_op = "from_root") =>
          \A p \in Selectable : UndecodableText(fs.data[p]) => p \in RecordedFiles
    /\ Selected =>
          \A i \in 1..Len(Records) :
              UndecodableText(BytesOf(Records[i])) =>
                  ~Records[i].is_binary /\ ~Records[i].content.some
    /\ document.generated =>
          /\ Generated
          /\ \A i \in 1..Len(Records) :
                /\ UndecodableText(BytesOf(Records[i])) =>
                      document.files[i].body = "not_available"
                /\ document.files[i].body = "binary" => Records[i].is_binary

\* C15 amended: the same for a file that can be opened.
C15_UndecodableDistinctWhenOpened ==
    /\ (Selected /\ file_op = "from_root") =>
          \A p \in Selectable : UndecodableText(fs.data[p]) => p \in RecordedFiles
    /\ Selected =>
          \A i \in 1..Len(Records) :
              (Records[i].file \notin fs.unopenable
                 /\ UndecodableText(BytesOf(Records[i]))) =>
                  ~Records[i].is_binary /\ ~Records[i].content.some
    /\ document.generated =>
          /\ Generated
          /\ \A i \in 1..Len(Records) :
                /\ (Records[i].file \notin fs.unopenable
                      /\ UndecodableText(BytesOf(Records[i]))) =>
                      document.files[i].body = "not_available"
                /\ document.files[i].body = "binary" => Records[i].is_binary

\* C15 witness: a document with a 'Content not available' section for an
\* opened file of invalid text and a 'Binary file' section for another record.
C15_Witness ==
    /\ Generated
    /\ \E i, j \in 1..Len(Records) :
          /\ Records[i].file \notin fs.unopenable
          /\ UndecodableText(BytesOf(Records[i]))
          /\ document.files[i].body = "not_available"
          /\ Records[j].is_binary
          /\ document.files[j].body = "binary"

\* C16: a file that cannot be opened (its metadata can be read) yields a
\* record with is_binary = true, no content and 0 lines, a warning is written
\* for it, and the files listed after it are still recorded.
C16_UnopenableWarned ==
    (Selected /\ file_op = "from_root") =>
        \A p \in Selectable \cap fs.unopenable :
            /\ \E i \in 1..Len(Records) :
                  /\ Records[i].file = p
                  /\ Records[i].is_binary
                  /\ ~Records[i].content.some
                  /\ Records[i].lines = 0
            /\ Selectable \subseteq RecordedFiles
            /\ \E k \in 1..Len(file_entries.warnings) :
                  file_entries.warnings[k].path = p

\* C16 without the warning: what the selection does for such a file.
C16_UnopenableRecorded ==
    (Selected /\ file_op = "from_root") =>
        \A p \in Selectable \cap fs.unopenable :
            /\ \E i \in 1..Len(Records) :
                  /\ Records[i].file = p
                  /\ Records[i].is_binary
                  /\ ~Records[i].content.some
                  /\ Records[i].lines = 0
            /\ Selectable \subseteq RecordedFiles


\* Whole-root selection lists the directory d: d is the root, or the selection
\* recurses and d lies below the root on a path without hidden names that no
\* exclude pattern prunes.
ListedFromRoot(d) ==
    \/ d = RootPath
    \/ /\ config.is_recursive
       /\ d \in fs.dirs
       /\ IsPrefix(RootPath, d)
       /\ ~HasDotSegment(RootRel(d))
       /\ ~ExcludedOnTheWay(d)

\* Target selection without patterns lists the directory d: d is a directory
\* target, or lies below one on a path without hidden names.
ListedFromTargets(d) ==
    /\ config.include_patterns = <<>> /\ config.exclude_patterns = <<>>
    /\ \E t \in ResolvedTargets :
          /\ t \in fs.dirs
          /\ d \in fs.dirs
          /\ IsPrefix(t, d)
          /\ ~HasDotSegment(Drop(d, Len(t)))
          /\ (config.is_recursive \/ d = t)

\* C17: when the listing of a directory the selection reaches fails, in
\* whole-root mode or beneath a directory target, the selection returns an
\* error and no record list, whatever was collected before.
C17_ListingFailureAborts ==
    /\ (file_op = "from_root" /\ \E d \in fs.unlistable : ListedFromRoot(d)) =>
          (~file_entries.ok /\ file_entries.files = <<>>)
    /\ (file_op = "from_target_paths"
          /\ \E d \in fs.unlistable : ListedFromTargets(d)) =>
          (~file_entries.ok /\ file_entries.files = <<>>)

\* C17 witness: target selection failed on the listing of the second target,
\* a directory, after the first target, a readable file, had given a record.
C17_Witness ==
    /\ file_op = "from_target_paths"
    /\ ~file_entries.ok
    /\ fs.unlistable # {}
    /\ Len(config.target_paths) = 2
    /\ config.include_patterns = <<>> /\ config.exclude_patterns = <<>>
    /\ AbsTargetPath(config, config.target_paths[1]) \in fs.files
    /\ AbsTargetPath(config, config.target_paths[2]) \in fs.unlistable
    /\ FromTarget(fs, config, RootPath, config.target_paths[1]).files # <<>>

\* No pattern of the configuration has an unclosed '['.
PatternsWellFormed ==
    /\ \A i \in 1..Len(config.include_patterns) :
          \A k \in 1..Len(config.include_patterns[i]) :
              config.include_patterns[i][k] # "["
    /\ \A i \in 1..Len(config.exclude_patterns) :
          \A k \in 1..Len(config.exclude_patterns[i]) :
              config.exclude_patterns[i][k] # "["

\* The files with a recoverable fault the selection meets: the metadata cannot
\* be read, the first bytes cannot be read, or (under recent_only) the
\* modification time cannot be read.
FailingFiles ==
    fs.unstatable \cup fs.unreadable \cup
        (IF config.recent_only THEN fs.nomtime ELSE {})

\* The filesystem without these faults.
Healed == [fs EXCEPT !.unstatable = {}, !.unreadable = {}, !.nomtime = {}]

\* The targets that name no file or directory.
MissingTargets ==
    { i \in 1..Len(config.target_paths) :
        ~Canonicalize(Healed, <<>>, AbsTargetPath(config, config.target_paths[i]))[1] }

\* The configuration without these targets.
WithoutMissingTargets ==
    [config EXCEPT !.target_paths =
        LET keep == SelectSeq([i \in 1..Len(config.target_paths) |-> i],
                              LAMBDA i : i \notin MissingTargets)
        IN [k \in 1..Len(keep) |-> config.target_paths[keep[k]]]]

\* What the selection that ran returns on the healed filesystem without the
\* missing targets.
UnfailingRun ==
    IF file_op = "from_root" THEN FromRoot(Healed, config, RootPath)
    ELSE FromTargetPaths(Healed, WithoutMissingTargets, RootPath)

\* Some warning was written for the path p.
WarnedFor(p) ==
    \E k \in 1..Len(file_entries.warnings) : file_entries.warnings[k].path = p

\* The selection succeeded and its records are those of the unfailing run
\* without the records of the files in S.
SkipsExactly(S) ==
    /\ file_entries.ok
    /\ Records = SelectSeq(UnfailingRun.files, LAMBDA r : r.file \notin S)

\* C18: a failing stat, read or timestamp check of a file, or a target that
\* does not exist, never aborts the selection: the item is skipped with a
\* warning, the selection succeeds, and the other records are what they would
\* be without the failing item (stated for well-formed patterns and
\* directories that can be listed).
C18_RecoverableSkips ==
    (file_op # "none" /\ PatternsWellFormed /\ fs.unlistable = {}) =>
        /\ SkipsExactly(FailingFiles)
        /\ \A i \in 1..Len(UnfailingRun.files) :
              UnfailingRun.files[i].file \in FailingFiles =>
                  WarnedFor(UnfailingRun.files[i].file)
        /\ file_op = "from_target_paths" =>
              \A i \in MissingTargets :
                  WarnedFor(AbsTargetPath(config, config.target_paths[i]))

\* C18 without the warning for a file whose metadata cannot be read: the skips
\* the selection does make as claimed.
C18_RecoverableSkipsWarnedButStat ==
    (file_op # "none" /\ PatternsWellFormed /\ fs.unlistable = {}) =>
        /\ SkipsExactly(FailingFiles)
        /\ \A i \in 1..Len(UnfailingRun.files) :
              UnfailingRun.files[i].file \in FailingFiles \ fs.unstatable =>
                  WarnedFor(UnfailingRun.files[i].file)
        /\ file_op = "from_target_paths" =>
              \A i \in MissingTargets :
                  WarnedFor(AbsTargetPath(config, config.target_paths[i]))

\* Some include or exclude pattern is malformed.
Malformed == ~PatternsWellFormed

\* C19: with a malformed include or exclude pattern every selection and every
\* tree rendering fails, in whole-root mode and in target mode, also when all
\* targets are plain files.
C19_MalformedPatternFails ==
    Malformed =>
        /\ file_op = "from_root" => ~file_entries.ok
        /\ (file_op = "from_target_paths" /\ config.target_paths # <<>>) =>
              ~file_entries.ok
        /\ tree_op # "none" => ~tree_str.ok

\* C19 for the whole-root operations only, which do compile the patterns.
C19_MalformedPatternFailsWholeRoot ==
    Malformed =>
        /\ file_op = "from_root" => ~file_entries.ok
        /\ tree_op = "build_tree_from_root" => ~tree_str.ok

\* C20: when the root is missing or is not a directory, whole-root selection
\* and the tree renderer fail and return neither records nor a tree.
C20_BadRootFails ==
    RootPath \notin fs.dirs =>
        /\ file_op = "from_root" => ~file_entries.ok
        /\ tree_op # "none" => ~tree_str.ok


\* The directory targets, resolved.
DirectoryTargets == { t \in ResolvedTargets : t \in fs.dirs }

\* C22: with recursive = false every record is for a direct child of the
\* directory the traversal started at: the root in whole-root mode, a
\* directory target in target mode (where a file target gives its own record).
C22_NonRecursiveTopLevelOnly ==
    (Selected /\ ~config.is_recursive) =>
        \A i \in 1..Len(Records) :
            /\ file_op = "from_root" => Parent(Records[i].file) = RootPath
            /\ file_op = "from_target_paths" =>
                  \/ Parent(Records[i].file) \in DirectoryTargets
                  \/ Records[i].file \in ResolvedTargets

\* C22 witness: non-recursive whole-root selection over a root with a file and
\* a directory that holds a file: the first recorded, the second not.
C22_Witness ==
    /\ Selected /\ file_op = "from_root" /\ ~config.is_recursive
    /\ config.include_patterns = <<>> /\ config.exclude_patterns = <<>>
    /\ \E p, q \in fs.files :
          /\ Parent(p) = RootPath /\ p \in RecordedFiles
          /\ Len(q) = Len(RootPath) + 2 /\ IsPrefix(RootPath, q)
          /\ ~HasDotSegment(RootRel(q))
          /\ q \notin RecordedFiles

\* The modification time of the file passes the recency filter, if it is on.
PassesRecency(p) ==
    config.recent_only => (p \notin fs.nomtime /\ fs.now - fs.mtime[p] <= 604800)

\* C23: a non-recursive full tree has a leaf for each top-level file that
\* passes the filters, a node for each top-level directory no exclude pattern
\* matches, no children under these nodes and no entry at depth two or more.
C23_NonRecursiveTreeFlat ==
    (tree_op = "build_tree_from_root" /\ tree_str.ok /\ ~config.is_recursive) =>
        /\ \A p \in EntriesUnderRoot :
              (/\ Parent(p) = RootPath
               /\ ~Excluded(RootRel(p))
               /\ p \in fs.files =>
                     /\ (config.include_patterns # <<>> => Included(RootRel(p)))
                     /\ PassesRecency(p)) =>
                  p \in RenderedEntries
        /\ \A i \in 2..Len(tree_str.tree) : Len(tree_str.tree[i].path) = 1

\* C23 witness: a non-recursive full tree showing a top-level directory that
\* holds an entry, and a top-level file.
C23_Witness ==
    /\ tree_op = "build_tree_from_root" /\ tree_str.ok /\ ~config.is_recursive
    /\ \E d \in fs.dirs, p \in fs.files :
          /\ Parent(d) = RootPath /\ d \in RenderedEntries
          /\ \E q \in EntriesUnderRoot : Parent(q) = d
          /\ Parent(p) = RootPath /\ p \in RenderedFiles


\* The modification time of the file can be read and lies at most seven days
\* (604800 seconds) before the clock.
ModifiedWithinSevenDays(p) ==
    p \notin fs.nomtime /\ fs.now - fs.mtime[p] <= 604800

\* The directory nodes of a rendered tree.
DirNodes(t) == { t[i].path : i \in { j \in 1..Len(t) : ~t[j].is_file } }

\* The tree the rendering that ran gives with the recency filter off.
TreeWithoutRecency ==
    IF tree_op = "build_tree_from_root"
    THEN BuildTreeFromRoot(fs, [config EXCEPT !.recent_only = FALSE])
    ELSE BuildTreeFromTargets(fs, [config EXCEPT !.recent_only = FALSE])

\* C26: with recent_only every record (whole-root, beneath a directory target,
\* or a file target) and every file leaf of the tree (either strategy) is for
\* a file whose modification time can be read and lies within seven days of
\* the clock; the directory nodes are those of the tree without the filter.
C26_RecentOnly ==
    config.recent_only =>
        /\ Selected => \A p \in RecordedFiles : ModifiedWithinSevenDays(p)
        /\ (tree_op # "none" /\ tree_str.ok) =>
              /\ \A p \in RenderedFiles : ModifiedWithinSevenDays(p)
              /\ DirNodes(tree_str.tree) = DirNodes(TreeWithoutRecency.tree)

\* C26 witness: with recent_only, a file target modified seven days and one
\* second ago gave no record while a file modified exactly seven days ago did,
\* and the tree was rendered.
C26_Witness ==
    /\ config.recent_only
    /\ Selected /\ file_op = "from_target_paths"
    /\ tree_op # "none" /\ tree_str.ok
    /\ \E p \in ResolvedTargets \cap fs.files :
          /\ p \notin fs.nomtime
          /\ fs.now - fs.mtime[p] = 604801
          /\ p \notin RecordedFiles
    /\ \E q \in RecordedFiles : fs.now - fs.mtime[q] = 604800


\* The render set build_tree_from_targets collected in the state's run.
RenderSet == TreePaths(fs, config)

\* C27: in Strategy B the render set lies at or under the root, holds the
\* parent of each of its paths other than the root, and holds nothing but the
\* root-ward chains of the targets that exist inside the root; when there is
\* no such target the build succeeds with the root node alone.
C27_RenderSetClosed ==
    (tree_op = "build_tree_from_targets" /\ StrategyB) =>
        /\ \A p \in RenderSet :
              /\ IsPrefix(RootPath, p)
              /\ p # RootPath => Parent(p) \in RenderSet
              /\ \E t \in TargetsInRoot : IsPrefix(p, t)
        /\ TargetsInRoot = {} =>
              /\ RenderSet = {}
              /\ tree_str.ok
              /\ tree_str.tree = <<Node(<<>>, FALSE)>>

\* C27 witness: Strategy B ran with a target two levels below the root and a
\* target outside the root; the render set holds the first with its parent
\* and the root.
C27_Witness ==
    /\ tree_op = "build_tree_from_targets" /\ StrategyB
    /\ tree_str.ok
    /\ ResolvedTargets \ TargetsInRoot # {}
    /\ \E t \in TargetsInRoot :
          /\ Len(t) = Len(RootPath) + 2
          /\ {t, Parent(t), RootPath} \subseteq RenderSet

\* C27 witness of the empty case: Strategy B ran with targets none of which
\* exists inside the root and rendered the root node alone.
C27_WitnessEmpty ==
    /\ tree_op = "build_tree_from_targets" /\ StrategyB
    /\ TargetsInRoot = {}
    /\ tree_str.ok /\ tree_str.tree = <<Node(<<>>, FALSE)>>


\* The configuration with no patterns and recursive = true, the root, the
\* targets and recent_only kept.
Unfiltered ==
    [config EXCEPT !.include_patterns = <<>>,
                   !.exclude_patterns = <<>>,
                   !.is_recursive = TRUE]

\* C28: the target-pruned tree of every configuration is the tree of the
\* configuration that differs from it only by having no patterns and
\* recursive = true; so two configurations that differ only in the include
\* patterns, the exclude patterns or the recursive flag give the same tree.
C28_PrunedTreeIgnoresFilters ==
    (tree_op = "build_tree_from_targets" /\ StrategyB) =>
        tree_str = BuildTreeFromTargets(fs, Unfiltered)

\* C28 witness: a pruned tree, rendered with recursive = false, that shows a
\* directory an exclude pattern matches together with an entry beneath it.
C28_Witness ==
    /\ tree_op = "build_tree_from_targets" /\ StrategyB
    /\ tree_str.ok
    /\ ~config.is_recursive
    /\ \E d \in RenderedEntries \cap fs.dirs :
          /\ Excluded(RootRel(d))
          /\ \E q \in RenderedEntries : Parent(q) = d


RECURSIVE SelectionsFrom(_)
\* The selections of the targets from the i-th on, each taken alone, one
\* after the other.
SelectionsFrom(i) ==
    IF i > Len(config.target_paths) THEN <<>>
    ELSE FromTarget(fs, config, RootPath, config.target_paths[i]).files
            \o SelectionsFrom(i + 1)

\* How often the record list holds a record of the file p.
TimesRecorded(p) == Cardinality({ i \in 1..Len(Records) : Records[i].file = p })

\* The positions of the targets whose own selection holds the file p.
TargetsCovering(p) ==
    { k \in 1..Len(config.target_paths) :
        LET own == FromTarget(fs, config, RootPath, config.target_paths[k]).files
        IN \E j \in 1..Len(own) : own[j].file = p }

\* C29: the record list of target mode is the selections of the targets, each
\* taken alone, joined in the order the targets were given; a file that k of
\* the targets cover is recorded k times.
C29_TargetsConcatenated ==
    (Selected /\ file_op = "from_target_paths") =>
        /\ Records = SelectionsFrom(1)
        /\ \A p \in RecordedFiles : TimesRecorded(p) = Cardinality(TargetsCovering(p))

\* C29 witness: a file recorded twice, once beneath a directory target and
\* once as a file target inside it.
C29_Witness ==
    /\ Selected /\ file_op = "from_target_paths"
    /\ \E p \in RecordedFiles :
          /\ TimesRecorded(p) = 2
          /\ p \in ResolvedTargets
          /\ Parent(p) \in DirectoryTargets


\* The lines i < j of the tree are children of the same node.
Siblings(i, j) ==
    /\ i < j
    /\ Len(tree_str.tree[i].path) = Len(tree_str.tree[j].path)
    /\ Len(tree_str.tree[i].path) > 0
    /\ Parent(tree_str.tree[i].path) = Parent(tree_str.tree[j].path)

\* C24: in both strategies the children of every node of the rendered tree,
\* files and directories alike, appear in ascending order of name, whatever
\* order the listing had.
C24_ChildrenSorted ==
    (tree_op # "none" /\ tree_str.ok) =>
        \A i, j \in 1..Len(tree_str.tree) :
            Siblings(i, j) =>
                NameLess(Last(tree_str.tree[i].path), Last(tree_str.tree[j].path))

\* C24 witness: a pruned tree with a file named b after a directory named a
\* under the directory target, rendered although the listing gives b before a.
C24_Witness ==
    /\ tree_op = "build_tree_from_targets" /\ StrategyB /\ tree_str.ok
    /\ fs.order = ListingOrder
    /\ \E i, j \in 1..Len(tree_str.tree) :
          /\ Siblings(i, j)
          /\ ~tree_str.tree[i].is_file /\ Last(tree_str.tree[i].path) = NA
          /\ tree_str.tree[j].is_file /\ Last(tree_str.tree[j].path) = NB

\* C25: a selection or a rendering run again on the unchanged directory tree
\* with the same configuration returns what the run before it returned,
\* whatever the listing order is by then.
C25_RunsIdentical ==
    [][/\ (file_op # "none" /\ file_op' = file_op) => file_entries' = file_entries
       /\ (tree_op # "none" /\ tree_op' = tree_op) => tree_str' = tree_str]_vars

\* C25 for the tree and a standing clock: the rendering does not depend on
\* the listing order.
C25_TreeIdenticalAtSameTime ==
    [][(tree_op # "none" /\ tree_op' = tree_op /\ fs'.now = Now /\ ~config.recent_only)
          => tree_str' = tree_str]_vars


\* A step of build_context: one more result is recorded.
BuildContextCalled == Len(build_results') = Len(build_results) + 1

\* One of the steps of build_context fails in the current state: repository
\* discovery (no repository, or none with a working directory), file
\* selection, tree rendering, or the read of the git metadata.
SomeStepFails ==
    \/ repo \in {"undiscoverable", "bare"}
    \/ ~(IF config.target_paths = <<>>
         THEN FromRoot(fs, config, config.root_path)
         ELSE FromTargetPaths(fs, config, config.root_path)).ok
    \/ ~(IF config.target_paths = <<>>
         THEN BuildTreeFromRoot(fs, config)
         ELSE BuildTreeFromTargets(fs, config)).ok
    \/ repo = "unborn"

\* A context every field of which was filled in.
FullyPopulated(ctx) ==
    /\ ctx.some
    /\ ctx.root_path = config.root_path
    /\ ctx.git_info.is_repo

\* C21: when a step of build_context fails (repository discovery, file
\* selection, tree rendering, git metadata) the call returns an error and the
\* manager's context is what it was before the call; a context the manager
\* holds is never partially populated, and on a fresh manager it stays None.
C21_FailedBuildKeepsContext ==
    /\ [](context.some => FullyPopulated(context))
    /\ []((\A i \in 1..Len(build_results) : ~build_results[i]) => context = NoContext)
    /\ [][(BuildContextCalled /\ SomeStepFails)
             => (~build_results'[Len(build_results')] /\ context' = context)]_vars

\* C21 witness: a second build_context failed at the git metadata after a
\* first one succeeded, and the manager still holds the first context.
C21_Witness ==
    /\ build_results = <<TRUE, FALSE>>
    /\ repo = "unborn"
    /\ context.some
    /\ output.state = "none"

\* C21 witness, fresh manager: the only call failed and the context is None.
C21_WitnessFresh ==
    /\ build_results = <<FALSE>>
    /\ repo = "unborn"
    /\ context = NoContext

C30_WitnessPanicked ==
    /\ output.state = "panicked"
    /\ build_results = <<FALSE>>

====
